---- MODULE Spec2Model ----
(***************************************************************************)
(* Model of the AI-Summary webhook pipeline (src/api/summary.js,           *)
(* src/api/actions.js, src/api/annotate.js): the article-store client      *)
(* (Omnivore.getArticle, Omnivore.addAnnotation), the completion client    *)
(* (AI.getCompletion) and the best-of-N selector                           *)
(* (AI.getBestCompletionOutOf).  The three files carry their own copy of   *)
(* each class; the variable file says which copy is running.               *)
(***************************************************************************)
EXTENDS Integers, Sequences, FiniteSets, TLC

VARIABLES
    file,          \* which handler file's classes are loaded
    \* ---- Omnivore.getArticle ----
    gaPc,          \* "idle" | "fetching" | "waiting" | "done"
    gaAttempts,    \* the attempts parameter of the running getArticle frame
    gaRequests,    \* requests sent to the article store by this call
    gaResponses,   \* the store's answers, in order
    gaDelays,      \* the setTimeout delays used, in order (milliseconds)
    gaOutcome,     \* "none" | "returned" | "raised"
    gaResult,      \* the value the call's promise resolved with
    \* ---- AI.getBestCompletionOutOf ----
    bcPc,          \* "idle" | "fanout" | "refine" | "done"
    bcPrompt,      \* argument prompt
    bcCompletions, \* argument completions: [present, length]
    bcArticle,     \* argument articleContent
    bcCand,        \* candidate promises: index -> [status, value]
    bcOrder,       \* indexes of the candidates in the order they settled
    bcCalls,       \* provider calls issued (chat.completions.create), in order
    bcRefineArg,   \* articleContent argument of the refinement getCompletion
    bcAnswer,      \* the provider's answer to the refinement call
    bcOutcome,     \* "none" | "returned" | "raised"
    bcResult,      \* the value the call's promise resolved with
    \* ---- AI.getCompletion called directly ----
    gcPc,          \* "idle" | "awaiting" | "done"
    gcPrompt,      \* argument prompt
    gcContent,     \* argument articleContent
    gcCalls,       \* provider calls issued by this call
    gcAnswer,      \* the provider's answer to that call, if one was issued
    gcOutcome,     \* "none" | "returned" | "raised"
    gcResult,      \* the value the call's promise resolved with
    \* ---- Omnivore.addAnnotation ----
    anPc,          \* "idle" | "posting"
    anCalls,       \* number of addAnnotation calls made so far
    anLog,         \* one record per call: [generated, sent, id, shortId]
    anAnswer,      \* the store's answer to the last finished call
    anOutcome,     \* outcome of the last finished call
    anResult,      \* value of the last finished call
    \* ---- trimAnnotation ----
    taPc,          \* "idle" | "done"
    taInput,       \* the argument annotation
    taOutput,      \* the string returned
    \* ---- the stage handlers (export default) ----
    apiKey,        \* whether process.env.OMNIVORE_API_KEY is set
    promptEnv,     \* process.env.OPENAI_PROMPT
    chain,         \* whether stage 1's trigger reaches a modelled stage 2
    uuidCount,     \* uuids generated by the handler invocations so far
    inv            \* the handler invocations: invocation -> its frame

fetchVars == <<gaPc, gaAttempts, gaRequests, gaResponses, gaDelays, gaOutcome, gaResult>>
bestVars  == <<bcPc, bcPrompt, bcCompletions, bcArticle, bcCand, bcOrder, bcCalls,
               bcRefineArg, bcAnswer, bcOutcome, bcResult>>
complVars == <<gcPc, gcPrompt, gcContent, gcCalls, gcAnswer, gcOutcome, gcResult>>
annotVars == <<anPc, anCalls, anLog, anAnswer, anOutcome, anResult>>
trimVars  == <<taPc, taInput, taOutput>>
handlerVars == <<apiKey, promptEnv, chain, uuidCount, inv>>
vars == <<file, fetchVars, bestVars, complVars, annotVars, trimVars, handlerVars>>

\* What the actions of one operation leave alone.
notFetch == <<file, bestVars, complVars, annotVars, trimVars, handlerVars>>
notBest  == <<file, fetchVars, complVars, annotVars, trimVars, handlerVars>>
notCompl == <<file, fetchVars, bestVars, annotVars, trimVars, handlerVars>>
notAnnot == <<file, fetchVars, bestVars, complVars, trimVars, handlerVars>>
notTrim  == <<file, fetchVars, bestVars, complVars, annotVars, handlerVars>>
notHandler == <<file, fetchVars, bestVars, complVars, annotVars, trimVars>>

(***************************************************************************)
(* Bounds of the model.                                                    *)
(***************************************************************************)
MaxN == 3
MaxCalls == 3
MaxUuidHi == 1
MaxUuidLo == 1
MaxLen == 3

Files == {"summary", "actions", "annotate"}

(***************************************************************************)
(* JavaScript values.  Strings are sequences of one-character strings.     *)
(***************************************************************************)
Undefined == [t |-> "undefined", s |-> <<>>, status |-> 0]
Null == [t |-> "null", s |-> <<>>, status |-> 0]
Str(s) == [t |-> "string", s |-> s, status |-> 0]
ErrResponse(st) == [t |-> "Response", s |-> <<>>, status |-> st]
Highlight == [t |-> "object", s |-> <<>>, status |-> 0]
NotCalled == [t |-> "none", s |-> <<>>, status |-> 0]

\* JavaScript truthiness, as tested by  !x
Truthy(v) == CASE v.t = "string" -> v.s # <<>>
               [] v.t \in {"undefined", "null"} -> FALSE
               [] OTHER -> TRUE

IsStr(v) == v.t = "string"

(***************************************************************************)
(* Omnivore.getArticle                                                     *)
(***************************************************************************)
\* attempts < 3 in the retry test
MaxRetries == 3

\* The article contents the store can hold: empty, null, or some markdown.
ArticleContents == {Str(<<>>), Null, Str(<<"x">>), Str(<<"y">>)}

\* What one request to the store can meet:
\*   transport  fetch() rejects
\*   http       response.ok is false
\*   badjson    response.json() rejects
\*   gqlerrors  the body carries an errors array
\*   noarticle  a successful body without an article object (ArticleError)
\*   content    a successful body with article.article.content
StoreResponses ==
    { [kind |-> k, content |-> Undefined] :
          k \in {"transport", "http", "badjson", "gqlerrors", "noarticle"} }
    \cup { [kind |-> "content", content |-> c] : c \in ArticleContents }

\* The statements that throw inside the try block before the retry test.
FetchThrows(resp) == resp.kind \in {"transport", "http", "badjson", "gqlerrors"}

\* data?.data?.article?.article?.content
OptionalContent(resp) == IF resp.kind = "content" THEN resp.content ELSE Undefined

ShouldRetry_NoCap(resp, attempts) == ~Truthy(OptionalContent(resp))

ShouldRetry_AnyContent(resp, attempts) == attempts < MaxRetries

\* !data?.data?.article?.article?.content && attempts < 3
ShouldRetry(resp, attempts) ==
    ~Truthy(OptionalContent(resp)) /\ attempts < MaxRetries

RetryDelay_Linear(attempts) == (attempts + 1) * 1000

\* Math.pow(2, attempts) * 1000
RetryDelay(attempts) == (2 ^ attempts) * 1000

\* The catch block: summary.js and actions.js log and fall off the end of the
\* function; annotate.js returns a Response with status 500.
getArticleCatch(f) ==
    [outcome |-> "returned",
     value |-> IF f = "annotate" THEN ErrResponse(500) ELSE Undefined]

\* return data.data.article.article.content : a TypeError when there is no
\* article object, which the catch block takes.
getArticleReturn(f, resp) ==
    IF resp.kind = "noarticle"
    THEN getArticleCatch(f)
    ELSE [outcome |-> "returned", value |-> resp.content]

FetchInit ==
    /\ gaPc = "idle"
    /\ gaAttempts = 0
    /\ gaRequests = 0
    /\ gaResponses = <<>>
    /\ gaDelays = <<>>
    /\ gaOutcome = "none"
    /\ gaResult = Undefined

\* omnivore.getArticle(articleId): runs to the await of fetch().
getArticle ==
    /\ gaPc = "idle"
    /\ gaPc' = "fetching"
    /\ gaAttempts' = 0
    /\ gaRequests' = 1
    /\ UNCHANGED <<gaResponses, gaDelays, gaOutcome, gaResult>>
    /\ UNCHANGED notFetch

\* The store answers the pending request; the frame runs to its end.
getArticleResponse ==
    /\ gaPc = "fetching"
    /\ \E resp \in StoreResponses :
         /\ gaResponses' = Append(gaResponses, resp)
         /\ IF FetchThrows(resp)
            THEN /\ gaPc' = "done"
                 /\ gaOutcome' = getArticleCatch(file).outcome
                 /\ gaResult' = getArticleCatch(file).value
                 /\ UNCHANGED gaDelays
            ELSE IF ShouldRetry(resp, gaAttempts)
            THEN /\ gaPc' = "waiting"
                 /\ gaDelays' = Append(gaDelays, RetryDelay(gaAttempts))
                 /\ UNCHANGED <<gaOutcome, gaResult>>
            ELSE /\ gaPc' = "done"
                 /\ gaOutcome' = getArticleReturn(file, resp).outcome
                 /\ gaResult' = getArticleReturn(file, resp).value
                 /\ UNCHANGED gaDelays
    /\ UNCHANGED <<gaAttempts, gaRequests>>
    /\ UNCHANGED notFetch

\* The timer fires: resolve(this.getArticle(articleId, attempts + 1)).
getArticleTimeout ==
    /\ gaPc = "waiting"
    /\ gaPc' = "fetching"
    /\ gaAttempts' = gaAttempts + 1
    /\ gaRequests' = gaRequests + 1
    /\ UNCHANGED <<gaResponses, gaDelays, gaOutcome, gaResult>>
    /\ UNCHANGED notFetch

(***************************************************************************)
(* trimAnnotation                                                          *)
(***************************************************************************)
Whitespace == {" ", "\n", "\t"}

RECURSIVE TrimStart(_)
TrimStart(s) ==
    IF s # <<>> /\ Head(s) \in Whitespace THEN TrimStart(Tail(s)) ELSE s

RECURSIVE TrimEnd(_)
TrimEnd(s) ==
    IF s # <<>> /\ s[Len(s)] \in Whitespace
    THEN TrimEnd(SubSeq(s, 1, Len(s) - 1))
    ELSE s

\* String.prototype.trim
Trim(s) == TrimEnd(TrimStart(s))

\* String.prototype.replace with a global one-character pattern
RECURSIVE ReplaceAll(_, _, _)
ReplaceAll(s, ch, rep) ==
    IF s = <<>>
    THEN <<>>
    ELSE (IF Head(s) = ch THEN rep ELSE <<Head(s)>>) \o ReplaceAll(Tail(s), ch, rep)

\* annotation.trim().replace(/"/g, '\\"').replace(/\\/g, '\\\\')
trimAnnotation(s) ==
    ReplaceAll(ReplaceAll(Trim(s), "\"", <<"\\", "\"">>), "\\", <<"\\", "\\">>)

\* The characters of the annotations tried: the double quote, the backslash,
\* an ordinary character and a blank.
TrimAlphabet == {"\"", "\\", "a", " "}

\* Every string over TrimAlphabet of at most MaxLen characters.
TrimInputs == UNION { [1..n -> TrimAlphabet] : n \in 0..MaxLen }

TrimInit ==
    /\ taPc = "idle"
    /\ taOutput = <<>>

\* trimAnnotation(annotation)
trimAnnotationCall ==
    /\ taPc = "idle"
    /\ taPc' = "done"
    /\ taOutput' = trimAnnotation(taInput)
    /\ UNCHANGED taInput
    /\ UNCHANGED notTrim

(***************************************************************************)
(* AI.getCompletion                                                        *)
(***************************************************************************)
\* Texts the provider may put in choices[0].message.content.
ProviderTexts == { <<>>, <<" ">>, <<"A">>, <<"B">>, <<"C">>, <<" ", "\"", "\\">> }

\* What one chat.completions.create call can meet:
\*   error      the call rejects
\*   nochoices  choices is empty
\*   nulltext   choices[0].message.content is null
\*   text       choices[0].message.content is a string
ProviderAnswers ==
    { [kind |-> k, text |-> <<>>] : k \in {"error", "nochoices", "nulltext"} }
    \cup { [kind |-> "text", text |-> t] : t \in ProviderTexts }

\* if (!prompt || !articleContent): summary.js and actions.js only log and go
\* on to the provider call; annotate.js returns a Response with status 400.
getCompletionStopsEarly(f, prompt, content) ==
    f = "annotate" /\ (~Truthy(prompt) \/ ~Truthy(content))

getCompletionEarlyValue == ErrResponse(400)

\* The catch block: summary.js and actions.js log and fall off the end of the
\* function; annotate.js returns a Response with status 500.
getCompletionCatch_Rethrow(f) ==
    [outcome |-> "raised", value |-> Undefined]

getCompletionCatch(f) ==
    [outcome |-> "returned",
     value |-> IF f = "annotate" THEN ErrResponse(500) ELSE Undefined]

\* The try block after the await: the emptiness test throws, trimAnnotation
\* of a null text is a TypeError, both taken by the catch block.
getCompletionSettle(f, ans) ==
    IF \/ ans.kind \in {"error", "nochoices", "nulltext"}
       \/ ans.text = <<>>
    THEN getCompletionCatch(f)
    ELSE [outcome |-> "returned", value |-> Str(trimAnnotation(ans.text))]

\* The arguments of one provider call, as interpolated into its message.
\* this.settings is taken to be valid JSON, as its default is: JSON.parse
\* of it does not throw before the call.
ProviderCall(role, prompt, content) ==
    [role |-> role, prompt |-> prompt, articleContent |-> content]

\* The instructions and article contents a caller may pass.
Prompts == {Undefined, Str(<<>>), Str(<<"P">>)}

\* annotate.js passes on what its getArticle returned, a Response included.
ArticleArgs(f) ==
    {Undefined, Str(<<>>), Str(<<"t">>)}
    \cup (IF f = "annotate" THEN {ErrResponse(500)} ELSE {})

NoAnswer == [kind |-> "none", text |-> <<>>]

ComplInit ==
    /\ gcPc = "idle"
    /\ gcPrompt = Undefined
    /\ gcContent = Undefined
    /\ gcCalls = <<>>
    /\ gcAnswer = NoAnswer
    /\ gcOutcome = "none"
    /\ gcResult = NotCalled

\* ai.getCompletion(prompt, articleContent): runs to the await of the
\* provider call, or returns before it.
getCompletion ==
    /\ gcPc = "idle"
    /\ \E p \in Prompts, c \in ArticleArgs(file) :
         /\ gcPrompt' = p
         /\ gcContent' = c
         /\ IF getCompletionStopsEarly(file, p, c)
            THEN /\ gcPc' = "done"
                 /\ gcOutcome' = "returned"
                 /\ gcResult' = getCompletionEarlyValue
                 /\ UNCHANGED gcCalls
            ELSE /\ gcPc' = "awaiting"
                 /\ gcCalls' = Append(gcCalls, ProviderCall("direct", p, c))
                 /\ UNCHANGED <<gcOutcome, gcResult>>
    /\ UNCHANGED gcAnswer
    /\ UNCHANGED notCompl

\* The provider answers; the try block runs to its end.
getCompletionResponse ==
    /\ gcPc = "awaiting"
    /\ \E ans \in ProviderAnswers :
         /\ gcAnswer' = ans
         /\ gcOutcome' = getCompletionSettle(file, ans).outcome
         /\ gcResult' = getCompletionSettle(file, ans).value
    /\ gcPc' = "done"
    /\ UNCHANGED <<gcPrompt, gcContent, gcCalls>>
    /\ UNCHANGED notCompl

(***************************************************************************)
(* AI.getBestCompletionOutOf                                               *)
(***************************************************************************)
\* The instruction of the refinement call: the REFINEMENT_PROMPT constant of
\* summary.js and actions.js, the literal of annotate.js; a non-empty string
\* in each file, abbreviated to its first word.
REFINEMENT_PROMPT == Str(<<"R", "e", "v", "i", "e", "w">>)

\* The completions argument: missing, or an array of 0..MaxN elements.
CompletionsArgs ==
    {[present |-> FALSE, length |-> 0]}
    \cup {[present |-> TRUE, length |-> n] : n \in 0..MaxN}

\* if (!prompt || !completions || completions.length <= 0 || !articleContent)
getBestCompletionOutOfThrows_NoLength(prompt, completions, content) ==
    ~Truthy(prompt) \/ ~completions.present \/ ~Truthy(content)

getBestCompletionOutOfThrows(prompt, completions, content) ==
    \/ ~Truthy(prompt)
    \/ ~completions.present
    \/ completions.length <= 0
    \/ ~Truthy(content)

\* Promise.all settles once every promise is fulfilled, or one is rejected.
PromiseAllSettled_Race(cand) ==
    \E i \in 1..Len(cand) : cand[i].status # "pending"

PromiseAllSettled(cand) ==
    \/ \A i \in 1..Len(cand) : cand[i].status = "fulfilled"
    \/ \E i \in 1..Len(cand) : cand[i].status = "rejected"

\* The array Promise.all resolves with: the values in the order of the
\* promises passed, not the order they settled in.
completionContents_ByArrival(cand, order) ==
    [k \in 1..Len(order) |-> cand[order[k]].value]

completionContents(cand, order) ==
    [i \in 1..Len(cand) |-> cand[i].value]

\* The string Array.prototype.join makes of one element.
ObjectResponse ==
    <<"[", "o", "b", "j", "e", "c", "t", " ",
      "R", "e", "s", "p", "o", "n", "s", "e", "]">>

ObjectObject ==
    <<"[", "o", "b", "j", "e", "c", "t", " ", "O", "b", "j", "e", "c", "t", "]">>

JoinString(v) ==
    CASE v.t = "string" -> v.s
      [] v.t \in {"undefined", "null", "none"} -> <<>>
      [] v.t = "Response" -> ObjectResponse
      [] OTHER -> ObjectObject

\* Array.prototype.join(sep)
RECURSIVE Join(_, _)
Join(values, sep) ==
    IF values = <<>>
    THEN <<>>
    ELSE IF Len(values) = 1
    THEN JoinString(values[1])
    ELSE JoinString(values[1]) \o sep \o Join(Tail(values), sep)

Pending == [status |-> "pending", value |-> Undefined]

Settled(res) ==
    [status |-> IF res.outcome = "raised" THEN "rejected" ELSE "fulfilled",
     value |-> res.value]

BestInit ==
    /\ bcPc = "idle"
    /\ bcPrompt = Undefined
    /\ bcCompletions = [present |-> FALSE, length |-> 0]
    /\ bcArticle = Undefined
    /\ bcCand = <<>>
    /\ bcOrder = <<>>
    /\ bcCalls = <<>>
    /\ bcRefineArg = NotCalled
    /\ bcAnswer = NoAnswer
    /\ bcOutcome = "none"
    /\ bcResult = NotCalled

\* ai.getBestCompletionOutOf(prompt, completions, articleContent): the
\* validation, then completions.map starts every getCompletion, each running
\* to the await of its provider call; the function waits in Promise.all.
getBestCompletionOutOf ==
    /\ bcPc = "idle"
    /\ \E p \in Prompts, comp \in CompletionsArgs, a \in ArticleArgs(file) :
         /\ bcPrompt' = p
         /\ bcCompletions' = comp
         /\ bcArticle' = a
         /\ IF getBestCompletionOutOfThrows(p, comp, a)
            THEN /\ bcPc' = "done"
                 /\ bcOutcome' = "raised"
                 /\ UNCHANGED <<bcCand, bcOrder, bcCalls>>
            ELSE LET early == getCompletionStopsEarly(file, p, a)
                     n == comp.length
                 IN  /\ bcPc' = "fanout"
                     /\ bcCand' = [i \in 1..n |->
                                      IF early
                                      THEN [status |-> "fulfilled",
                                            value |-> getCompletionEarlyValue]
                                      ELSE Pending]
                     /\ bcOrder' = IF early THEN [i \in 1..n |-> i] ELSE <<>>
                     /\ bcCalls' = IF early
                                   THEN <<>>
                                   ELSE [i \in 1..n |-> ProviderCall("candidate", p, a)]
                     /\ UNCHANGED bcOutcome
    /\ UNCHANGED <<bcRefineArg, bcAnswer, bcResult>>
    /\ UNCHANGED notBest

\* The provider answers the call of candidate i, whose getCompletion runs to
\* its end.
candidateResponse ==
    /\ \E i \in 1..Len(bcCand), ans \in ProviderAnswers :
         /\ bcCand[i].status = "pending"
         /\ bcCand' = [bcCand EXCEPT ![i] = Settled(getCompletionSettle(file, ans))]
         /\ bcOrder' = Append(bcOrder, i)
    /\ UNCHANGED <<bcPc, bcPrompt, bcCompletions, bcArticle, bcCalls,
                   bcRefineArg, bcAnswer, bcOutcome, bcResult>>
    /\ UNCHANGED notBest

\* Promise.all has settled: the function resumes, joins the contents and
\* calls getCompletion for the refinement, which runs to the await of its
\* provider call or returns before it.
promiseAllResumes ==
    /\ bcPc = "fanout"
    /\ PromiseAllSettled(bcCand)
    /\ IF \E i \in 1..Len(bcCand) : bcCand[i].status = "rejected"
       THEN /\ bcPc' = "done"
            /\ bcOutcome' = "raised"
            /\ UNCHANGED <<bcCalls, bcRefineArg, bcResult>>
       ELSE LET arg == Str(Join(completionContents(bcCand, bcOrder), <<"\n">>))
            IN  /\ bcRefineArg' = arg
                /\ IF getCompletionStopsEarly(file, REFINEMENT_PROMPT, arg)
                   THEN /\ bcPc' = "done"
                        /\ bcOutcome' = "returned"
                        /\ bcResult' = getCompletionEarlyValue
                        /\ UNCHANGED bcCalls
                   ELSE /\ bcPc' = "refine"
                        /\ bcCalls' = Append(bcCalls,
                               ProviderCall("refinement", REFINEMENT_PROMPT, arg))
                        /\ UNCHANGED <<bcOutcome, bcResult>>
    /\ UNCHANGED <<bcPrompt, bcCompletions, bcArticle, bcCand, bcOrder, bcAnswer>>
    /\ UNCHANGED notBest

\* The provider answers the refinement call: return await getCompletion(...).
refinementResponse ==
    /\ bcPc = "refine"
    /\ \E ans \in ProviderAnswers :
         /\ bcAnswer' = ans
         /\ bcOutcome' = getCompletionSettle(file, ans).outcome
         /\ bcResult' = getCompletionSettle(file, ans).value
    /\ bcPc' = "done"
    /\ UNCHANGED <<bcPrompt, bcCompletions, bcArticle, bcCand, bcOrder, bcCalls,
                   bcRefineArg>>
    /\ UNCHANGED notBest

(***************************************************************************)
(* Omnivore.addAnnotation                                                  *)
(***************************************************************************)
HexDigits ==
    <<"0", "1", "2", "3", "4", "5", "6", "7", "8", "9", "a", "b", "c", "d", "e", "f">>

\* The number n as width hexadecimal digits.
RECURSIVE Hex(_, _)
Hex(n, width) ==
    IF width = 0
    THEN <<>>
    ELSE Hex(n \div 16, width - 1) \o <<HexDigits[(n % 16) + 1]>>

\* A version-4 UUID in its 8-4-4-4-12 text form; hi and lo stand for its
\* random bits.
Uuid(hi, lo) ==
    Hex(hi, 8) \o <<"-", "0", "0", "0", "0", "-", "4", "0", "0", "0",
                    "-", "8", "0", "0", "0", "-">> \o Hex(lo, 12)

\* uuidv4(): a value it has not returned before.
uuidv4(used) ==
    { Str(Uuid(hi, lo)) : hi \in 0..MaxUuidHi, lo \in 0..MaxUuidLo } \ used

\* String.prototype.substring(from, to), 0 <= from <= to
Substring(s, from, to) ==
    SubSeq(s, from + 1, IF to < Len(s) THEN to ELSE Len(s))

\* The third argument the handler of actions.js passes: none.
ActionsIdArgs == {Undefined}

\* const id = uuidv4() in summary.js and annotate.js; in actions.js that
\* line is commented out and id is the third parameter.
addAnnotationIds(f, log) ==
    IF f = "actions"
    THEN { [generated |-> FALSE, id |-> a] : a \in ActionsIdArgs }
    ELSE { [generated |-> TRUE, id |-> u] :
               u \in uuidv4({ log[k].id : k \in 1..Len(log) }) }

\* What one CreateHighlight request can meet:
\*   transport  fetch() rejects
\*   http       response.ok is false
\*   badjson    response.json() rejects
\*   gqlerrors  the body carries an errors array
\*   highlight  a body with data.createHighlight
PostResponses == {"transport", "http", "badjson", "gqlerrors", "highlight"}

\* The catch block: summary.js and actions.js log and fall off the end of the
\* function; annotate.js returns a Response with status 500.
addAnnotationCatch(f) ==
    [outcome |-> "returned",
     value |-> IF f = "annotate" THEN ErrResponse(500) ELSE Undefined]

addAnnotationSettle(f, resp) ==
    IF resp = "highlight"
    THEN [outcome |-> "returned", value |-> Highlight]
    ELSE addAnnotationCatch(f)

AnnotInit ==
    /\ anPc = "idle"
    /\ anCalls = 0
    /\ anLog = <<>>
    /\ anAnswer = "none"
    /\ anOutcome = "none"
    /\ anResult = NotCalled

\* omnivore.addAnnotation(articleId, annotation): builds the mutation input
\* and runs to the await of fetch(); id.substring of an undefined id is a
\* TypeError outside the try block, which rejects the call.
addAnnotation ==
    /\ anPc = "idle"
    /\ anCalls < MaxCalls
    /\ anCalls' = anCalls + 1
    /\ \E c \in addAnnotationIds(file, anLog) :
         IF IsStr(c.id)
         THEN /\ anLog' = Append(anLog,
                     [generated |-> c.generated, sent |-> TRUE, id |-> c.id,
                      shortId |-> Str(Substring(c.id.s, 0, 8))])
              /\ anPc' = "posting"
              /\ UNCHANGED <<anAnswer, anOutcome, anResult>>
         ELSE /\ anLog' = Append(anLog,
                     [generated |-> c.generated, sent |-> FALSE, id |-> c.id,
                      shortId |-> Undefined])
              /\ anPc' = "idle"
              /\ anAnswer' = "none"
              /\ anOutcome' = "raised"
              /\ anResult' = Undefined
    /\ UNCHANGED notAnnot

\* The store answers the mutation; the try block runs to its end.
addAnnotationResponse ==
    /\ anPc = "posting"
    /\ \E resp \in PostResponses :
         /\ anAnswer' = resp
         /\ anOutcome' = addAnnotationSettle(file, resp).outcome
         /\ anResult' = addAnnotationSettle(file, resp).value
    /\ anPc' = "idle"
    /\ UNCHANGED <<anCalls, anLog>>
    /\ UNCHANGED notAnnot

(***************************************************************************)
(* The stage handlers: export default async (req) of each file.  An        *)
(* invocation is one run of a handler; its frame holds the handler's       *)
(* locals and the object state of the Omnivore and AI instances it         *)
(* constructs.  new OpenAI() is taken not to throw (the provider key is    *)
(* set), and this.settings to be valid JSON.                               *)
(***************************************************************************)
Invocations == {1, 2}

\* The article the webhook event names.
ArticleId == Str(<<"a", "1">>)

\* What req.json() can yield:
\*   unparsable  it rejects
\*   empty       {}
\*   event       the webhook event { page: { id } }
\*   handoff     the body a previous stage sends
Body(kind, articleId, article, id) ==
    [kind |-> kind, articleId |-> articleId, article |-> article, id |-> id]

NoBody == Body("none", Undefined, Undefined, Undefined)

EventBody == Body("event", ArticleId, Undefined, Undefined)

\* JSON.stringify({ articleId, article, articleAnnotation: '' [, id] })
Handoff(articleId, article, id) == Body("handoff", articleId, article, id)

Bodies ==
    { Body("unparsable", Undefined, Undefined, Undefined),
      Body("empty", Undefined, Undefined, Undefined),
      EventBody }
    \cup { Handoff(ArticleId, a, Undefined) : a \in {Undefined, Str(<<"x">>)} }

\* The environment's OPENAI_PROMPT: unset, or some instruction.
PromptEnvs == {Undefined, Str(<<"P">>)}

\* [...Array(3).keys()]
HandlerCompletions == [present |-> TRUE, length |-> 3]

\* The annotation texts the handlers post, abbreviated:
\* 'En summering av artikeln', "test 2", "test 3", "test 4" in summary.js,
\* 'En Action till artikeln' in actions.js.
StageText(f, k) ==
    IF f = "actions"
    THEN Str(<<"A", "c", "t", "i", "o", "n">>)
    ELSE IF k = 1
    THEN Str(<<"s", "u", "m">>)
    ELSE Str(<<"t", "e", "s", "t", " ">> \o Hex(k, 1))

\* What an invocation does towards the outside, in the order it does it.
Send(to, op) == [ev |-> "send", to |-> to, op |-> op]
Done(to, op) == [ev |-> "done", to |-> to, op |-> op]
Responded == [ev |-> "respond", to |-> "caller", op |-> "Response"]

IdleFrame ==
    [file |-> "none",          \* the file whose handler runs
     pc |-> "idle",            \* the await the handler is suspended at
     body |-> NoBody,          \* what req.json() gave
     articleId |-> Undefined,
     article |-> NotCalled,    \* what getArticle returned
     attempts |-> 0,           \* getArticle's attempts parameter
     empties |-> 0,            \* responses without content this invocation got
     cand |-> <<>>,            \* the candidate promises of annotate.js
     posts |-> <<>>,           \* the CreateHighlight inputs sent
     response |-> NotCalled,   \* const response
     handoff |-> NoBody,       \* the body sent to the next stage
     clean |-> TRUE,           \* every remote call so far has succeeded
     outcome |-> "none",       \* responded, or unhandled (the promise rejects)
     status |-> 0,             \* status of the Response returned
     error |-> "none",         \* the error the handler rejected with
     log |-> <<>>]

HandlerIdle ==
    /\ apiKey = TRUE
    /\ promptEnv = Str(<<"P">>)
    /\ chain = FALSE
    /\ uuidCount = 0
    /\ inv = [i \in Invocations |-> IdleFrame]

\* An uncaught throw: the handler's promise rejects.
Raise(h, err) ==
    [h EXCEPT !.pc = "done", !.outcome = "unhandled", !.error = err]

\* return new Response(..., { status })
Respond(h, st) ==
    [h EXCEPT !.pc = "done", !.outcome = "responded", !.status = st,
              !.log = Append(@, Responded)]

\* if (!this.apiKey) throw new Error('API key is not defined')
omnivoreConstructorThrows_Never(key) == FALSE

omnivoreConstructorThrows(key) == ~key

\* The k-th value uuidv4() returns: different from every earlier one.
uuidNth_Constant(k) == Str(Uuid(0, 0))

uuidNth(k) == Str(Uuid(0, k))

\* The id addAnnotation puts in the mutation input: const id = uuidv4() in
\* summary.js and annotate.js; the third parameter in actions.js, which the
\* handler does not pass.
handlerPostId(f, count) ==
    IF f = "actions"
    THEN CHOOSE a \in ActionsIdArgs : TRUE
    ELSE uuidNth(count)

\* omnivore.addAnnotation(articleId, annotation) up to the await of fetch().
StartPost(h, annotation, count) ==
    LET id == handlerPostId(h.file, count)
    IN  IF IsStr(id)
        THEN [h EXCEPT !.pc = "posting",
                       !.posts = Append(@, [id |-> id,
                                            shortId |-> Str(Substring(id.s, 0, 8)),
                                            articleId |-> h.articleId,
                                            annotation |-> annotation]),
                       !.log = Append(@, Send("store", "CreateHighlight"))]
        ELSE Raise(h, "TypeError")

\* The uuids drawn by the step that took frame h to frame h2.
UuidsDrawn(h, h2) ==
    IF h2.file = "actions" THEN 0 ELSE Len(h2.posts) - Len(h.posts)

\* omnivore.getArticle(articleId, attempts) up to the await of fetch().
SendFetch(h) ==
    [h EXCEPT !.pc = "fetching", !.log = Append(@, Send("store", "Article"))]

\* await fetch('https://ai-summary-theta.vercel.app/api/...') up to the await.
SendTrigger(h) ==
    [h EXCEPT !.pc = "triggering",
              !.handoff = Handoff(h.articleId, h.article,
                                  IF h.file = "actions" THEN h.body.id ELSE Undefined),
              !.log = Append(@, Send("next", "trigger"))]

\* The destructuring of the request body: of an undefined body, or of a
\* page that is not there, a TypeError.
BodyThrows(f, b) ==
    IF f = "actions"
    THEN b.kind = "unparsable"
    ELSE b.kind # "event"

\* The handler after const article = await omnivore.getArticle(articleId):
\* summary.js posts its fixed text; annotate.js calls getBestCompletionOutOf,
\* whose validation throws or whose candidates run to their provider calls.
AfterArticle(h, count) ==
    IF h.file = "summary"
    THEN StartPost(h, StageText("summary", 1), count)
    ELSE IF getBestCompletionOutOfThrows(promptEnv, HandlerCompletions, h.article)
    THEN Raise(h, "Missing required parameters")
    ELSE [h EXCEPT !.pc = "fanout",
                   !.cand = [k \in 1..HandlerCompletions.length |-> Pending],
                   !.log = @ \o [k \in 1..HandlerCompletions.length |->
                                    Send("provider", "completion")]]

\* The handler after an addAnnotation call has returned, its k-th.
AfterPost(h, k, count) ==
    CASE h.file = "summary" /\ k = 1 -> SendTrigger(h)
      [] h.file = "summary" /\ k \in {2, 3} ->
             StartPost(h, StageText("summary", k + 1), count)
      [] h.file = "summary" /\ k = 4 -> Respond(h, 200)
      [] h.file = "actions" -> SendTrigger(h)
      [] OTHER -> Respond(h, 200)

\* The handler after await fetch(next stage): a rejected fetch is not
\* caught; a resolved one, whatever its status, lets the handler go on.
AfterTrigger(h, resolved, count) ==
    IF ~resolved
    THEN Raise(h, "fetch failed")
    ELSE IF h.file = "summary"
    THEN StartPost(h, StageText("summary", 2), count)
    ELSE Respond(h, 200)

\* The platform calls the handler of file f with a request whose body is
\* b; the handler runs to its first await of a remote call, or to its end.
handlerReceives(i, f, b) ==
    /\ inv[i].pc = "idle"
    /\ LET h == [inv[i] EXCEPT !.file = f, !.body = b]
           h1 == [h EXCEPT !.articleId = IF (f = "actions") = (b.kind = "handoff")
                                         THEN b.articleId
                                         ELSE Undefined,
                           !.article = IF f = "actions" THEN b.article ELSE @]
           h2 == IF f = "annotate" /\ b.kind = "unparsable"
                 THEN Respond(h, 400)
                 ELSE IF BodyThrows(f, b)
                 THEN Raise(h, "TypeError")
                 ELSE IF omnivoreConstructorThrows(apiKey)
                 THEN Raise(h1, "API key is not defined")
                 ELSE IF f = "actions"
                 THEN StartPost(h1, StageText("actions", 1), uuidCount)
                 ELSE SendFetch(h1)
       IN  /\ inv' = [inv EXCEPT ![i] = h2]
           /\ uuidCount' = uuidCount + UuidsDrawn(inv[i], h2)
    /\ UNCHANGED <<apiKey, promptEnv, chain>>
    /\ UNCHANGED notHandler

\* The store answers the article query of invocation i: getArticle retries,
\* or returns and the handler runs on to its next await.
storeAnswersFetchWith(i, responses) ==
    /\ inv[i].pc = "fetching"
    /\ \E resp \in responses :
         LET got == ~FetchThrows(resp) /\ Truthy(OptionalContent(resp))
             h == [inv[i] EXCEPT !.log = Append(@, Done("store", "Article")),
                                 !.clean = @ /\ got,
                                 !.empties = IF FetchThrows(resp) \/ got
                                             THEN @ ELSE @ + 1]
         IN  IF ~FetchThrows(resp) /\ ShouldRetry(resp, h.attempts)
             THEN /\ inv' = [inv EXCEPT ![i] = [h EXCEPT !.pc = "waiting"]]
                  /\ UNCHANGED uuidCount
             ELSE LET res == IF FetchThrows(resp)
                             THEN getArticleCatch(h.file)
                             ELSE getArticleReturn(h.file, resp)
                      h2 == AfterArticle([h EXCEPT !.article = res.value],
                                         uuidCount)
                  IN  /\ inv' = [inv EXCEPT ![i] = h2]
                      /\ uuidCount' = uuidCount + UuidsDrawn(h, h2)
    /\ UNCHANGED <<apiKey, promptEnv, chain>>
    /\ UNCHANGED notHandler

storeAnswersFetch(i) == storeAnswersFetchWith(i, StoreResponses)

\* The retry timer of invocation i fires: getArticle(articleId, attempts + 1).
retryTimerFires(i) ==
    /\ inv[i].pc = "waiting"
    /\ inv' = [inv EXCEPT ![i] =
                  SendFetch([inv[i] EXCEPT !.attempts = @ + 1])]
    /\ UNCHANGED <<apiKey, promptEnv, chain, uuidCount>>
    /\ UNCHANGED notHandler

\* The provider answers candidate k of invocation i.
providerAnswersCandidate(i) ==
    /\ inv[i].pc = "fanout"
    /\ \E k \in 1..Len(inv[i].cand), ans \in ProviderAnswers :
         /\ inv[i].cand[k].status = "pending"
         /\ inv' = [inv EXCEPT ![i] =
                [inv[i] EXCEPT
                    !.cand[k] = Settled(getCompletionSettle(inv[i].file, ans)),
                    !.clean = @ /\ ans.kind = "text" /\ ans.text # <<>>,
                    !.log = Append(@, Done("provider", "completion"))]]
    /\ UNCHANGED <<apiKey, promptEnv, chain, uuidCount>>
    /\ UNCHANGED notHandler

\* Promise.all of invocation i has settled: the refinement call starts.
handlerPromiseAllResumes(i) ==
    /\ inv[i].pc = "fanout"
    /\ PromiseAllSettled(inv[i].cand)
    /\ LET h == inv[i]
           arg == Str(Join(completionContents(h.cand, <<>>), <<"\n">>))
           h2 == IF \E k \in 1..Len(h.cand) : h.cand[k].status = "rejected"
                 THEN Raise(h, "completion failed")
                 ELSE IF getCompletionStopsEarly(h.file, REFINEMENT_PROMPT, arg)
                 THEN StartPost(h, getCompletionEarlyValue, uuidCount)
                 ELSE [h EXCEPT !.pc = "refine",
                                !.log = Append(@, Send("provider", "completion"))]
       IN  /\ inv' = [inv EXCEPT ![i] = h2]
           /\ uuidCount' = uuidCount + UuidsDrawn(h, h2)
    /\ UNCHANGED <<apiKey, promptEnv, chain>>
    /\ UNCHANGED notHandler

\* The provider answers the refinement call of invocation i; the handler
\* posts what getBestCompletionOutOf returned.
providerAnswersRefinement(i) ==
    /\ inv[i].pc = "refine"
    /\ \E ans \in ProviderAnswers :
         LET res == getCompletionSettle(inv[i].file, ans)
             h == [inv[i] EXCEPT
                      !.clean = @ /\ ans.kind = "text" /\ ans.text # <<>>,
                      !.log = Append(@, Done("provider", "completion"))]
             h2 == IF res.outcome = "raised"
                   THEN Raise(h, "completion failed")
                   ELSE StartPost(h, res.value, uuidCount)
         IN  /\ inv' = [inv EXCEPT ![i] = h2]
             /\ uuidCount' = uuidCount + UuidsDrawn(h, h2)
    /\ UNCHANGED <<apiKey, promptEnv, chain>>
    /\ UNCHANGED notHandler

\* The store answers the pending mutation of invocation i; addAnnotation
\* returns and the handler runs on to its next await or to its end.
storeAnswersPostWith(i, responses) ==
    /\ inv[i].pc = "posting"
    /\ \E resp \in responses :
         LET k == Len(inv[i].posts)
             h == [inv[i] EXCEPT
                      !.log = Append(@, Done("store", "CreateHighlight")),
                      !.clean = @ /\ resp = "highlight",
                      !.response = IF k = 1
                                   THEN addAnnotationSettle(inv[i].file, resp).value
                                   ELSE @]
             h2 == AfterPost(h, k, uuidCount)
         IN  /\ inv' = [inv EXCEPT ![i] = h2]
             /\ uuidCount' = uuidCount + UuidsDrawn(h, h2)
    /\ UNCHANGED <<apiKey, promptEnv, chain>>
    /\ UNCHANGED notHandler

storeAnswersPost(i) == storeAnswersPostWith(i, PostResponses)

\* The trigger of invocation i settles.
TriggerSettles(i, resolved) ==
    /\ inv[i].pc = "triggering"
    /\ LET h == [inv[i] EXCEPT !.log = Append(@, Done("next", "trigger")),
                               !.clean = @ /\ resolved]
           h2 == AfterTrigger(h, resolved, uuidCount)
       IN  /\ inv' = [inv EXCEPT ![i] = h2]
           /\ uuidCount' = uuidCount + UuidsDrawn(h, h2)
    /\ UNCHANGED <<apiKey, promptEnv, chain>>
    /\ UNCHANGED notHandler

\* The next-stage endpoint outside the model answers the trigger of
\* invocation i, or the request fails on the way.  A trigger that has
\* reached the modelled stage 2 is answered by stage2Responds instead.
nextStageSettles(i) ==
    \E resolved \in BOOLEAN :
        /\ (chain /\ i = 1) => (~resolved /\ inv[2].pc = "idle")
        /\ TriggerSettles(i, resolved)

\* Stage 1's trigger reaches /api/actions: the platform runs the handler
\* of actions.js on the body sent.
stage2Invoked ==
    /\ chain
    /\ inv[1].pc = "triggering"
    /\ handlerReceives(2, "actions", inv[1].handoff)

\* The stage-2 invocation has ended, with its Response or with the
\* platform's error response: stage 1's fetch resolves either way.
stage2Responds ==
    /\ chain
    /\ inv[2].pc = "done"
    /\ TriggerSettles(1, TRUE)

(***************************************************************************)
(* Specifications: one per operation, each started from a freshly loaded   *)
(* handler file.                                                           *)
(***************************************************************************)
Init ==
    /\ file \in Files
    /\ FetchInit
    /\ BestInit
    /\ ComplInit
    /\ AnnotInit
    /\ TrimInit
    /\ taInput = <<>>
    /\ HandlerIdle

NextFetch == getArticle \/ getArticleResponse \/ getArticleTimeout
SpecFetch == Init /\ [][NextFetch]_vars

NextBest ==
    \/ getBestCompletionOutOf
    \/ candidateResponse
    \/ promiseAllResumes
    \/ refinementResponse
SpecBest == Init /\ [][NextBest]_vars

NextCompl == getCompletion \/ getCompletionResponse
SpecCompl == Init /\ [][NextCompl]_vars

NextAnnot == addAnnotation \/ addAnnotationResponse
SpecAnnot == Init /\ [][NextAnnot]_vars

\* trimAnnotation applied to every bounded input.
InitTrim ==
    /\ file \in Files
    /\ FetchInit
    /\ BestInit
    /\ ComplInit
    /\ AnnotInit
    /\ TrimInit
    /\ taInput \in TrimInputs
    /\ HandlerIdle

NextTrim == trimAnnotationCall
SpecTrim == InitTrim /\ [][NextTrim]_vars

(***************************************************************************)
(* Properties of Omnivore.getArticle (SpecFetch)                           *)
(***************************************************************************)
\* A successful response that carries no usable content: an empty or null
\* content, or no article object.
WithoutContent(resp) ==
    \/ resp.kind = "noarticle"
    \/ resp.kind = "content" /\ resp.content \in {Str(<<>>), Null}

WithContent(resp) ==
    resp.kind = "content" /\ IsStr(resp.content) /\ resp.content.s # <<>>

LastResponse == gaResponses[Len(gaResponses)]

\* C1: one call of getArticle sends at most 4 requests (1 attempt and at most 3
\* retries); request i+1 is sent only after response i was a successful
\* response without content; and once the store has answered every request
\* the call is finished or waiting for a retry timer, finished for certain
\* after the 4th answer.
C1_AtMostFourRequests ==
    /\ gaRequests <= 4
    /\ Len(gaDelays) <= 3
    /\ \A i \in 1..Len(gaResponses) :
           i < gaRequests => WithoutContent(gaResponses[i])
    /\ (gaRequests > 0 /\ Len(gaResponses) = gaRequests)
           => gaPc \in {"done", "waiting"}
    /\ Len(gaResponses) = 4 => gaPc = "done"

C1_Witness ==
    /\ gaPc = "done"
    /\ gaRequests = 4
    /\ Len(gaResponses) = 4
    /\ Len(gaDelays) = 3

\* C2: when the first k answers (0 <= k <= 3) are without content and answer
\* k+1 has content, getArticle returns exactly that content after exactly k
\* retries, and k+1 requests is all it ever sends.
C2_ReturnsFirstContent ==
    \A i \in 1..Len(gaResponses) :
        WithContent(gaResponses[i]) =>
            /\ i = Len(gaResponses)
            /\ \A j \in 1..(i - 1) : WithoutContent(gaResponses[j])
            /\ gaPc = "done"
            /\ gaOutcome = "returned"
            /\ gaResult = gaResponses[i].content
            /\ Len(gaDelays) = i - 1
            /\ gaRequests = i

C2_Witness ==
    /\ gaPc = "done"
    /\ Len(gaResponses) = 3
    /\ WithoutContent(gaResponses[1])
    /\ WithoutContent(gaResponses[2])
    /\ gaResponses[3] = [kind |-> "content", content |-> Str(<<"x">>)]
    /\ gaResult = Str(<<"x">>)
    /\ Len(gaDelays) = 2
    /\ gaRequests = 3

\* C3: when all 4 attempts got a successful response without usable content,
\* getArticle does not raise and returns the value the last attempt fetched,
\* in each of the three files.
C3_ExhaustedReturnsLastFetched ==
    ( /\ gaPc = "done"
      /\ Len(gaResponses) = 4
      /\ \A i \in 1..4 : WithoutContent(gaResponses[i]) )
    => /\ gaOutcome = "returned"
       /\ gaResult = LastResponse.content

\* C4: when an attempt meets a transport error, a non-2xx status or a GraphQL
\* errors array, getArticle sends no further request, does not raise and
\* returns undefined, in each of the three files.
C4_FailureReturnsUndefined ==
    ( /\ gaPc = "done"
      /\ Len(gaResponses) >= 1
      /\ LastResponse.kind \in {"transport", "http", "gqlerrors"} )
    => /\ gaRequests = Len(gaResponses)
       /\ gaOutcome = "returned"
       /\ gaResult = Undefined

(***************************************************************************)
(* Properties of AI.getBestCompletionOutOf (SpecBest)                      *)
(***************************************************************************)
NonEmptyString(v) == IsStr(v) /\ v.s # <<>>

\* An empty or absent argument.
EmptyArg(v) == v \in {Undefined, Null, Str(<<>>)}

CallsOf(role) == { k \in 1..Len(bcCalls) : bcCalls[k].role = role }

\* C5: for n >= 1 and a non-empty instruction and article content, one call of
\* getBestCompletionOutOf issues exactly n candidate provider calls, each with
\* the (instruction, articleContent) pair it was given, and exactly 1
\* refinement provider call: n+1 provider calls in total.
C5_ExactlyNPlusOneCalls ==
    ( /\ bcPc = "done"
      /\ NonEmptyString(bcPrompt)
      /\ NonEmptyString(bcArticle)
      /\ bcCompletions.present
      /\ bcCompletions.length >= 1 )
    => /\ Cardinality(CallsOf("candidate")) = bcCompletions.length
       /\ \A k \in CallsOf("candidate") :
              bcCalls[k].prompt = bcPrompt /\ bcCalls[k].articleContent = bcArticle
       /\ Cardinality(CallsOf("refinement")) = 1
       /\ Len(bcCalls) = bcCompletions.length + 1

\* C6: when the candidate list is missing or empty, or the instruction is
\* empty, or the article content is empty or absent, getBestCompletionOutOf
\* raises and has issued no provider call and started no candidate.
C6_FailFast ==
    ( /\ bcPc # "idle"
      /\ \/ ~bcCompletions.present
         \/ bcCompletions.length <= 0
         \/ EmptyArg(bcPrompt)
         \/ EmptyArg(bcArticle) )
    => /\ bcPc = "done"
       /\ bcOutcome = "raised"
       /\ bcCalls = <<>>
       /\ bcCand = <<>>
       /\ bcRefineArg = NotCalled

C6_Witness ==
    /\ bcPc = "done"
    /\ bcOutcome = "raised"
    /\ bcCompletions = [present |-> TRUE, length |-> 0]
    /\ NonEmptyString(bcPrompt)
    /\ NonEmptyString(bcArticle)

\* C7: under every interleaving of the candidate calls, the refinement call
\* is made only when no candidate call is pending any more.
C7_RefinementAfterAllCandidates ==
    (bcRefineArg # NotCalled \/ CallsOf("refinement") # {})
    => \A i \in 1..Len(bcCand) : bcCand[i].status # "pending"

C7_Witness ==
    /\ bcPc = "refine"
    /\ Len(bcCand) = 3
    /\ bcOrder = <<3, 1, 2>>
    /\ CallsOf("refinement") = {4}

\* C8: the article-content argument of the refinement call is the candidate
\* texts joined with newlines in the order the candidate calls were issued,
\* whatever order they completed in, and the value returned is the text the
\* refinement call returned.
C8_JoinInIssueOrder ==
    /\ ( /\ bcRefineArg # NotCalled
         /\ \A i \in 1..Len(bcCand) : IsStr(bcCand[i].value) )
       => bcRefineArg =
              Str(Join([i \in 1..Len(bcCand) |-> bcCand[i].value], <<"\n">>))
    /\ ( /\ bcPc = "done"
         /\ bcAnswer.kind = "text"
         /\ bcAnswer.text # <<>> )
       => /\ bcOutcome = "returned"
          /\ bcResult = Str(trimAnnotation(bcAnswer.text))

\* Candidates A, B, C completing in the order 3, 1, 2; the refinement call
\* gets A\nB\nC and its answer B is the result.
C8_Witness ==
    /\ bcPc = "done"
    /\ bcOrder = <<3, 1, 2>>
    /\ bcCand = << [status |-> "fulfilled", value |-> Str(<<"A">>)],
                   [status |-> "fulfilled", value |-> Str(<<"B">>)],
                   [status |-> "fulfilled", value |-> Str(<<"C">>)] >>
    /\ bcRefineArg = Str(<<"A", "\n", "B", "\n", "C">>)
    /\ bcCalls[4].articleContent = bcRefineArg
    /\ bcAnswer = [kind |-> "text", text |-> <<"B">>]
    /\ bcResult = Str(<<"B">>)

\* The candidates whose getCompletion took its catch block: the provider
\* call rejected, returned no choice, or returned an empty or null text.
FailedCandidates ==
    { i \in 1..Len(bcCand) :
          bcCand[i].status # "pending" /\ ~IsStr(bcCand[i].value) }

\* C21: for n >= 1 and a non-empty instruction and article content, the
\* failure of any of the candidate calls does not abort the selection: the
\* call never raises, and once it is done after some candidates have failed,
\* the join of all n values has been made and passed to the refinement,
\* whose provider call has been issued exactly once.
C21_CandidateFailuresTolerated ==
    ( /\ bcPc # "idle"
      /\ NonEmptyString(bcPrompt)
      /\ NonEmptyString(bcArticle)
      /\ bcCompletions.present
      /\ bcCompletions.length >= 1 )
    => /\ bcOutcome # "raised"
       /\ \A i \in 1..Len(bcCand) : bcCand[i].status # "rejected"
       /\ Cardinality(CallsOf("refinement")) <= 1
       /\ (bcPc = "done" /\ FailedCandidates # {})
              => /\ bcOutcome = "returned"
                 /\ Len(bcCand) = bcCompletions.length
                 /\ bcRefineArg =
                        Str(Join([i \in 1..Len(bcCand) |-> bcCand[i].value],
                                 <<"\n">>))
                 /\ Cardinality(CallsOf("refinement")) = 1
                 /\ bcCalls[Len(bcCalls)].articleContent = bcRefineArg

\* All three candidates fail, one after the other, and the refinement is
\* still called and answered.
C21_Witness ==
    /\ bcPc = "done"
    /\ bcOutcome = "returned"
    /\ bcCompletions.length = 3
    /\ NonEmptyString(bcPrompt)
    /\ NonEmptyString(bcArticle)
    /\ FailedCandidates = {1, 2, 3}
    /\ CallsOf("refinement") = {4}
    /\ bcAnswer.kind = "text"

(***************************************************************************)
(* Properties of AI.getCompletion (SpecCompl)                              *)
(***************************************************************************)
\* C9: getCompletion raises when the instruction is empty, when the article
\* content is empty, when the provider returns zero choices, or when the first
\* choice's text is empty; with an empty instruction or article content it
\* issues no provider call.
C9_CompleteRaises ==
    /\ ( /\ gcPc = "done"
         /\ \/ EmptyArg(gcPrompt)
            \/ EmptyArg(gcContent)
            \/ gcAnswer.kind = "nochoices"
            \/ gcAnswer.kind = "text" /\ gcAnswer.text = <<>> )
       => gcOutcome = "raised"
    /\ (gcPc # "idle" /\ (EmptyArg(gcPrompt) \/ EmptyArg(gcContent)))
       => gcCalls = <<>>

(***************************************************************************)
(* Properties of Omnivore.addAnnotation (SpecAnnot)                        *)
(***************************************************************************)
\* C10: every call of addAnnotation, in each file, generates its own fresh
\* id and sends it; the ids sent are pairwise distinct, and the shortId sent
\* with an id is its first 8 characters.
C10_FreshIdPerCall ==
    \A i \in 1..Len(anLog) :
        /\ anLog[i].generated
        /\ anLog[i].sent
        /\ IsStr(anLog[i].id)
        /\ Len(anLog[i].id.s) = 36
        /\ anLog[i].shortId = Str(SubSeq(anLog[i].id.s, 1, 8))
        /\ \A j \in 1..Len(anLog) : j # i => anLog[j].id # anLog[i].id

\* C11: addAnnotation never propagates a failure to its caller: every call
\* returns normally, and a call whose request met a transport error, a
\* non-2xx status or a GraphQL errors array returns without a highlight, in
\* each file and for every way the handlers call it.
C11_NeverPropagates ==
    /\ anOutcome # "raised"
    /\ ( /\ anPc = "idle"
         /\ anAnswer \in {"transport", "http", "gqlerrors"} )
       => anResult # Highlight

(***************************************************************************)
(* Retry delays of Omnivore.getArticle (SpecFetch)                         *)
(***************************************************************************)
RECURSIVE Sum(_)
Sum(seq) == IF seq = <<>> THEN 0 ELSE Head(seq) + Sum(Tail(seq))

\* C20: the delay before retry k (k = 1, 2, 3) is exactly 2^(k-1) seconds,
\* 1 s, 2 s, 4 s in that order, the same in every run, and the waiting time
\* of one call never exceeds 7 seconds.
C20_BackoffSchedule ==
    /\ \A k \in 1..Len(gaDelays) : gaDelays[k] = (2 ^ (k - 1)) * 1000
    /\ Len(gaDelays) <= 3
    /\ SubSeq(<<1000, 2000, 4000>>, 1, Len(gaDelays)) = gaDelays
    /\ Sum(gaDelays) <= 7000

C20_Witness ==
    /\ gaDelays = <<1000, 2000, 4000>>
    /\ gaRequests = 4

(***************************************************************************)
(* Properties of trimAnnotation (SpecTrim)                                 *)
(***************************************************************************)
\* Each double quote becomes backslash-quote and each backslash two
\* backslashes, every character of the input escaped once.
RECURSIVE EscapeOnce(_)
EscapeOnce(s) ==
    IF s = <<>>
    THEN <<>>
    ELSE (CASE Head(s) = "\"" -> <<"\\", "\"">>
            [] Head(s) = "\\" -> <<"\\", "\\">>
            [] OTHER -> <<Head(s)>>) \o EscapeOnce(Tail(s))

\* Undoing the escaping: a backslash stands for the character after it.
RECURSIVE Unescape(_)
Unescape(s) ==
    IF s = <<>>
    THEN <<>>
    ELSE IF Head(s) = "\\" /\ Len(s) >= 2
    THEN <<s[2]>> \o Unescape(SubSeq(s, 3, Len(s)))
    ELSE <<Head(s)>> \o Unescape(Tail(s))

\* C12: for every input over the double quote, the backslash and ordinary
\* characters, trimAnnotation returns the trimmed input with each double
\* quote replaced by backslash-quote and each backslash by two backslashes,
\* so that undoing the escaping gives back the trimmed input.
C12_EscapesEachCharacterOnce ==
    taPc = "done" =>
        /\ taOutput = EscapeOnce(Trim(taInput))
        /\ Unescape(taOutput) = Trim(taInput)

(***************************************************************************)
(* Specifications of the stage handlers.                                   *)
(***************************************************************************)
OperationsIdle ==
    /\ FetchInit
    /\ BestInit
    /\ ComplInit
    /\ AnnotInit
    /\ TrimInit
    /\ taInput = <<>>

\* One invocation of the handler of any file, on any request body, in any
\* environment; the next stage is outside the model.
InitHandler ==
    /\ file \in Files
    /\ OperationsIdle
    /\ apiKey \in BOOLEAN
    /\ promptEnv \in PromptEnvs
    /\ chain = FALSE
    /\ uuidCount = 0
    /\ inv = [i \in Invocations |-> IdleFrame]

webhookArrives == \E b \in Bodies : handlerReceives(1, file, b)

NextHandler ==
    \/ webhookArrives
    \/ \E i \in Invocations :
         \/ storeAnswersFetch(i)
         \/ retryTimerFires(i)
         \/ providerAnswersCandidate(i)
         \/ handlerPromiseAllResumes(i)
         \/ providerAnswersRefinement(i)
         \/ storeAnswersPost(i)
         \/ nextStageSettles(i)
SpecHandler == InitHandler /\ [][NextHandler]_vars

\* Stage 1 (summary.js) as invocation 1, whose trigger runs stage 2
\* (actions.js) as invocation 2; stage 3 is outside the model.
InitPipeline ==
    /\ file = "summary"
    /\ OperationsIdle
    /\ apiKey \in BOOLEAN
    /\ promptEnv \in PromptEnvs
    /\ chain = TRUE
    /\ uuidCount = 0
    /\ inv = [i \in Invocations |-> IdleFrame]

NextPipeline ==
    \/ webhookArrives
    \/ stage2Invoked
    \/ stage2Responds
    \/ \E i \in Invocations :
         \/ storeAnswersFetch(i)
         \/ retryTimerFires(i)
         \/ storeAnswersPost(i)
         \/ nextStageSettles(i)
SpecPipeline == InitPipeline /\ [][NextPipeline]_vars

\* The same webhook event delivered twice: two invocations of the stage-1
\* handler on the same article, their steps interleaved.
InitConcurrent ==
    /\ file = "summary"
    /\ OperationsIdle
    /\ apiKey = TRUE
    /\ promptEnv = Undefined
    /\ chain = FALSE
    /\ uuidCount = 0
    /\ inv = [i \in Invocations |-> IdleFrame]

eventDelivered(i) == handlerReceives(i, file, EventBody)

\* The store, as the two invocations meet it: a request fails, finds the
\* article without content yet, or finds its content; a mutation fails or
\* succeeds.
DuplicateStoreResponses ==
    { r \in StoreResponses :
          \/ r.kind \in {"transport", "noarticle"}
          \/ r.kind = "content" /\ r.content = Str(<<"x">>) }

DuplicatePostResponses == {"http", "highlight"}

duplicateFetchAnswered(i) == storeAnswersFetchWith(i, DuplicateStoreResponses)

duplicatePostAnswered(i) == storeAnswersPostWith(i, DuplicatePostResponses)

NextConcurrent ==
    \E i \in Invocations :
        \/ eventDelivered(i)
        \/ duplicateFetchAnswered(i)
        \/ retryTimerFires(i)
        \/ duplicatePostAnswered(i)
        \/ nextStageSettles(i)
SpecConcurrent == InitConcurrent /\ [][NextConcurrent]_vars

(***************************************************************************)
(* Properties of the stage handlers (SpecHandler)                          *)
(***************************************************************************)
\* The positions of event e in a log.
Positions(log, e) == { k \in 1..Len(log) : log[k] = e }

\* The outbound calls an invocation has sent.
Sends(log) == { k \in 1..Len(log) : log[k].ev = "send" }

\* The request carries what the handler of file f reads from it.
WellFormed(f, b) ==
    IF f = "actions" THEN b.kind = "handoff" ELSE b.kind = "event"

\* C13: when the store's API key is missing from the environment, an
\* invocation makes no outbound call, and one that reaches the construction
\* of the store client ends there, rejecting with 'API key is not defined'.
C13_NoKeyNoOutboundCall ==
    ~apiKey =>
        \A i \in Invocations :
            /\ Sends(inv[i].log) = {}
            /\ inv[i].pc \in {"idle", "done"}
            /\ (inv[i].pc = "done" /\ WellFormed(inv[i].file, inv[i].body))
                   => /\ inv[i].outcome = "unhandled"
                      /\ inv[i].error = "API key is not defined"

C13_Witness ==
    /\ ~apiKey
    /\ inv[1].pc = "done"
    /\ inv[1].body = EventBody
    /\ inv[1].error = "API key is not defined"
    /\ inv[1].log = <<>>

\* C14: one invocation of a handler sends at most one CreateHighlight
\* mutation.
C14_AtMostOnePost ==
    \A i \in Invocations :
        Cardinality(Positions(inv[i].log, Send("store", "CreateHighlight"))) <= 1

\* C16: an invocation that has ended has returned an HTTP response: no
\* failure leaves the handler as a rejection.
C16_AlwaysResponds ==
    \A i \in Invocations :
        inv[i].pc = "done" => inv[i].outcome = "responded"

\* C17: a stage-1 invocation whose article fetch failed or yielded no
\* content has, once ended, posted its annotation, triggered stage 2 and
\* returned status 200.
C17_PostsWithoutContent ==
    \A i \in Invocations :
        ( /\ inv[i].file = "summary"
          /\ inv[i].pc = "done"
          /\ inv[i].article # NotCalled
          /\ ~Truthy(inv[i].article) )
        => /\ Len(inv[i].posts) >= 1
           /\ inv[i].handoff = Handoff(inv[i].articleId, inv[i].article, Undefined)
           /\ inv[i].outcome = "responded"
           /\ inv[i].status = 200

\* C19: within an invocation the trigger is sent only after an annotation
\* post has completed, the response is returned only after the trigger has
\* completed, and no store call is sent after the trigger was sent.
C19_LinearOrder ==
    \A i \in Invocations :
        LET log == inv[i].log
            triggers == Positions(log, Send("next", "trigger"))
        IN  /\ \A p \in triggers :
                   \E q \in 1..(p - 1) : log[q] = Done("store", "CreateHighlight")
            /\ \A p \in Positions(log, Responded), q \in triggers :
                   \E r \in (q + 1)..(p - 1) : log[r] = Done("next", "trigger")
            /\ \A q \in triggers :
                   \A p \in (q + 1)..Len(log) :
                       ~(log[p].ev = "send" /\ log[p].to = "store")

(***************************************************************************)
(* Properties of the chained stages (SpecPipeline)                         *)
(***************************************************************************)
\* The invocation has posted an annotation on the article.
PostedOn(h, articleId) ==
    \E k \in 1..Len(h.posts) : h.posts[k].articleId = articleId

\* C15: once stage 1 has ended with every remote call of both stages
\* having succeeded, stage 1 has posted its annotation and invoked stage 2
\* with the article, and stage 2 has posted its annotation on the same
\* article and invoked stage 3.
C15_StagesChain ==
    ( /\ inv[1].pc = "done"
      /\ inv[1].outcome = "responded"
      /\ inv[1].clean
      /\ inv[2].clean )
    => /\ PostedOn(inv[1], ArticleId)
       /\ inv[2].body = Handoff(ArticleId, inv[1].article, Undefined)
       /\ PostedOn(inv[2], ArticleId)
       /\ Send("next", "trigger") \in { inv[2].log[k] : k \in 1..Len(inv[2].log) }

(***************************************************************************)
(* Properties of concurrent invocations (SpecConcurrent)                   *)
(***************************************************************************)
\* The posts of both invocations, each tagged with its invocation.
AllPosts ==
    UNION { { <<i, k>> : k \in 1..Len(inv[i].posts) } : i \in Invocations }

\* C18: two concurrent invocations of the stage-1 handler share no state:
\* each runs its own retry counter, which counts the responses without
\* content that invocation got and the requests it sent; the annotation
\* ids of all their posts are pairwise different; and both, once they have
\* responded, have posted the same annotations on the same article.
C18_NoSharedState ==
    /\ \A i \in Invocations :
           LET h == inv[i]
               requests == Cardinality(Positions(h.log, Send("store", "Article")))
           IN  /\ h.attempts <= MaxRetries
               /\ h.pc # "idle" => requests = h.attempts + 1
               /\ h.empties = IF h.pc = "waiting" \/ h.empties > MaxRetries
                              THEN h.attempts + 1
                              ELSE h.attempts
    /\ \A x \in AllPosts, y \in AllPosts :
           x # y => inv[x[1]].posts[x[2]].id # inv[y[1]].posts[y[2]].id
    /\ ( \A i \in Invocations : inv[i].outcome = "responded" )
           => /\ Len(inv[1].posts) = Len(inv[2].posts)
              /\ \A k \in 1..Len(inv[1].posts) :
                     /\ inv[1].posts[k].articleId = inv[2].posts[k].articleId
                     /\ inv[1].posts[k].annotation = inv[2].posts[k].annotation

C18_Witness ==
    /\ \A i \in Invocations :
           /\ inv[i].outcome = "responded"
           /\ inv[i].attempts >= 1
           /\ Len(inv[i].posts) = 4
    /\ inv[1].attempts # inv[2].attempts
    /\ inv[1].posts[1].id = uuidNth(1)
    /\ inv[2].posts[1].id = uuidNth(0)
    /\ inv[1].posts[2].id = uuidNth(2)

====
